---- MODULE Spec2Model ----
(***************************************************************************)
(* dotfiles-maintainer: the memory tools, the MemoryManager they forward   *)
(* to, the ServerConfig the manager is built from and the CLI commands.    *)
(*                                                                         *)
(* A Python str is a sequence of tokens (an f-string is the concatenation  *)
(* of its literal parts and its formatted values); the VCS status output   *)
(* is a sequence of characters.  A call that can raise yields an outcome:  *)
(* Ok(v) or Raise(e).  The external mem0 client, the VCS subprocess and    *)
(* the process environment are inputs chosen by the actions.               *)
(***************************************************************************)
EXTENDS Integers, Sequences, FiniteSets, TLC

VARIABLES environ, last, cli, baseline

vars == <<environ, last, cli, baseline>>

\* last: the tool invocation in progress, as its caller and the client see
\* it: the tool, its arguments, its outcome, the MemoryManager calls it made
\* and its VCS helper calls.  No tool call in progress:
NoCall ==
    [tool |-> "none", args |-> <<>>, out |-> [raised |-> FALSE, val |-> <<>>],
     mem |-> <<>>, vcs |-> <<>>]

\* cli: the command in progress: what it printed and called, in order, and
\* its exit code.  No command in progress:
NoCli == [cmd |-> "none", events |-> <<>>, exit_code |-> 0]

\* baseline: the history of initialize_system_baseline over the run.
\* calls: the calls that confirmed a baseline; stored: the baseline entries
\* the client accepted; args and repeats: the arguments of the first
\* confirmed call and the confirmed calls made with them; text and copies:
\* the first entry the client accepted and the accepted entries equal to it
NoBaseline ==
    [calls |-> 0, stored |-> 0,
     args |-> [manager_name |-> "", system_metadata |-> ""], repeats |-> 0,
     text |-> <<>>, copies |-> 0]

(* ------------------------------ bounds -------------------------------- *)

\* longest VCS status output, in characters
MaxOut == 3
\* number of initialize_system_baseline calls followed
MaxCalls == 2

(* ------------------------- outcomes and values ------------------------ *)

Ok(v) == [raised |-> FALSE, val |-> v]
Raise(e) == [raised |-> TRUE, exc |-> e]

\* an exception object: its class and str(e)
Exc(type, msg) == [type |-> type, msg |-> msg]

\* Python's None, as a tagged value
PyNone == [t |-> "none"]
PyStr(s) == [t |-> "str", s |-> s]
PyList(items) == [t |-> "list", items |-> items]
PyDict(d) == [t |-> "dict", d |-> d]

\* bool(x) of a value a client may return
Truthy(x) ==
    CASE x.t = "none" -> FALSE
      [] x.t = "str" -> x.s # <<>>
      [] x.t = "list" -> x.items # <<>>
      [] x.t = "dict" -> DOMAIN x.d # {}

Range(s) == {s[i] : i \in 1..Len(s)}

\* sub occurs in s as a contiguous run of tokens
Contains(s, sub) ==
    \E i \in 0..(Len(s) - Len(sub)) : SubSeq(s, i + 1, i + Len(sub)) = sub

RECURSIVE SelectSeqIdx(_, _, _)
\* [f(x) for x in s if p(x)] of a Python list comprehension, by index
SelectSeqIdx(s, keep, i) ==
    IF i > Len(s) THEN <<>>
    ELSE (IF keep[i] THEN <<s[i]>> ELSE <<>>) \o SelectSeqIdx(s, keep, i + 1)

(* ----------------------------- str methods ---------------------------- *)

\* str.isspace for the characters of a status output
IsSpace(c) == c \in {" ", "\n"}

RECURSIVE lstrip(_)
lstrip(s) ==
    IF s = <<>> THEN <<>>
    ELSE IF IsSpace(Head(s)) THEN lstrip(Tail(s)) ELSE s

RECURSIVE rstrip(_)
rstrip(s) ==
    IF s = <<>> THEN <<>>
    ELSE IF IsSpace(s[Len(s)]) THEN rstrip(SubSeq(s, 1, Len(s) - 1)) ELSE s

\* str.strip()
strip(s) == rstrip(lstrip(s))

\* index of the first line break of s, 0 when there is none
FirstBreak(s) ==
    IF \E i \in 1..Len(s) : s[i] = "\n"
    THEN CHOOSE i \in 1..Len(s) : s[i] = "\n" /\ \A j \in 1..(i - 1) : s[j] # "\n"
    ELSE 0

RECURSIVE splitlines(_)
\* str.splitlines(): no trailing empty line, "" gives []
splitlines(s) ==
    IF s = <<>> THEN <<>>
    ELSE LET i == FirstBreak(s)
         IN IF i = 0 THEN <<s>>
            ELSE <<SubSeq(s, 1, i - 1)>> \o splitlines(SubSeq(s, i + 1, Len(s)))

(* ------------------------------ redaction ----------------------------- *)

\* the tokens the redaction filter recognises as secrets
SecretTokens == {"sk-s3cr3t"}

\* utils.secrets.redact_secrets: every secret token is replaced
redact_secrets(text) ==
    [i \in 1..Len(text) |-> IF text[i] \in SecretTokens THEN "[REDACTED]" ELSE text[i]]

(* ------------------------------ ServerConfig -------------------------- *)

\* an environment variable that is not set
Unset == "<unset>"

VcsTimeoutDefault == 10
VcsTimeoutMin == 1
VcsTimeoutMax == 300
UserIdMinLen == 1
UserIdMaxLen == 50

\* the values of DOTFILES_USER_ID: name and length
UserIdEnv == <<[name |-> Unset, len |-> 0],
               [name |-> "", len |-> 0],
               [name |-> "alice", len |-> 5],
               [name |-> "bob", len |-> 3]>>

\* the values of DOTFILES_VCS_TIMEOUT (-1: not set)
VcsTimeoutEnv == <<-1, VcsTimeoutMin - 1, VcsTimeoutMin, VcsTimeoutMax, VcsTimeoutMax + 1>>

\* ServerConfig(): the fields read from the environment, validated
ServerConfig(env) ==
    LET uid == IF env.user_id.name = Unset
               THEN [name |-> "default_user", len |-> 12]
               ELSE env.user_id
        tmo == IF env.vcs_timeout = -1 THEN VcsTimeoutDefault ELSE env.vcs_timeout
    IN IF env.user_id.name # Unset /\ (uid.len < UserIdMinLen \/ uid.len > UserIdMaxLen)
       THEN Raise(Exc("ValidationError", <<"user_id">>))
       ELSE IF env.vcs_timeout # -1 /\ (tmo < VcsTimeoutMin \/ tmo > VcsTimeoutMax)
       THEN Raise(Exc("ValidationError", <<"vcs_timeout">>))
       ELSE Ok([user_id |-> uid.name, vcs_timeout |-> tmo])

(* ------------------------------ MemoryManager ------------------------- *)

\* MemoryManager.__init__
MemoryManager(config) == [config |-> config, user_id |-> config.user_id]

\* what the client's add and update return on success
ClientResult == <<"{'results': []}">>

\* the errors the mem0 client raises
ClientErrors == <<Exc("ConnectionError", <<"connection refused">>),
                  Exc("ValueError", <<"quota exceeded">>)>>

\* the responses of client.add and client.update
WriteResponses ==
    <<Ok(ClientResult)>> \o [i \in 1..Len(ClientErrors) |-> Raise(ClientErrors[i])]

\* add_with_redaction that forwards the caller's text as it is
add_unredacted(self, text, metadata, resp) ==
    LET call == [op |-> "add", text |-> text, caller_text |-> text,
                 user_id |-> self.user_id, metadata |-> metadata,
                 raised |-> resp.raised, returned |-> resp]
    IN [out |-> resp, calls |-> <<call>>]

\* add_with_redaction that tags every memory alike
add_with_fixed_type(self, text, metadata, resp) ==
    LET call == [op |-> "add", text |-> redact_secrets(text), caller_text |-> text,
                 user_id |-> self.user_id, metadata |-> [type |-> "memory"],
                 raised |-> resp.raised, returned |-> resp]
    IN [out |-> resp, calls |-> <<call>>]

\* MemoryManager.add_with_redaction; resp is the client's response, kept
\* with the call as `returned`
add_with_redaction(self, text, metadata, resp) ==
    LET call == [op |-> "add", text |-> redact_secrets(text), caller_text |-> text,
                 user_id |-> self.user_id, metadata |-> metadata,
                 raised |-> resp.raised, returned |-> resp]
    IN [out |-> resp, calls |-> <<call>>]

\* update that tries the client a second time when it raises
update_with_retry(self, memory_id, text, resp) ==
    LET call == [op |-> "update", text |-> redact_secrets(text), caller_text |-> text,
                 memory_id |-> memory_id, raised |-> resp.raised, returned |-> resp]
    IN [out |-> resp, calls |-> IF resp.raised THEN <<call, call>> ELSE <<call>>]

\* MemoryManager.update
update(self, memory_id, text, resp) ==
    LET call == [op |-> "update", text |-> redact_secrets(text), caller_text |-> text,
                 memory_id |-> memory_id, raised |-> resp.raised, returned |-> resp]
    IN [out |-> resp, calls |-> <<call>>]

\* a shape check that looks for the 'memory' key only
IsMemoryResultWithoutId(item) ==
    item.t = "dict" /\ "memory" \in DOMAIN item.d

\* isinstance(item, dict) and "id" in item and "memory" in item
IsMemoryResult(item) ==
    item.t = "dict" /\ "id" \in DOMAIN item.d /\ "memory" \in DOMAIN item.d

\* the items of a list that pass the shape check, in order
ValidItems(items) ==
    SelectSeqIdx(items, [i \in 1..Len(items) |-> IsMemoryResult(items[i])], 1)

\* dict.get(key) with default None
DictGet(d, key) == IF key \in DOMAIN d THEN d[key] ELSE PyNone

\* the dict display {"results": ..., "relations": ...} typed SearchResult
SearchResult(results, relations) ==
    PyDict([results |-> results, relations |-> relations])

\* MemoryManager._validate_search_result
_validate_search_result(result) ==
    IF result.t # "dict"
    THEN IF result.t = "list"
         THEN Ok(SearchResult(ValidItems(result.items), PyNone))
         ELSE Raise(Exc("TypeError", <<"Expected dict or list, got ", result.t>>))
    ELSE LET raw_results == DictGet(result.d, "results")
         IN Ok(SearchResult(IF raw_results.t = "list"
                            THEN ValidItems(raw_results.items) ELSE <<>>,
                            DictGet(result.d, "relations")))

\* MemoryManager.search; resp is the client's response
search(self, query, limit, resp) ==
    LET call == [op |-> "search", query |-> query, user_id |-> self.user_id,
                 limit |-> limit, raised |-> resp.raised, returned |-> resp]
        body == IF resp.raised THEN resp
                ELSE IF ~Truthy(resp.val)
                THEN Ok(SearchResult(<<>>, PyNone))
                ELSE _validate_search_result(resp.val)
    IN [out |-> IF body.raised
                THEN Raise(Exc("MemorySearchError",
                               <<"Failed to search: ">> \o body.exc.msg))
                ELSE body,
        calls |-> <<call>>]

(* ------------------------------ VCS helper ---------------------------- *)

VcsTypes == <<"git", "jj">>

\* the errors of the VCS subprocess: command missing, timeout
VcsErrors == <<Exc("TimeoutExpired", <<"vcs command timed out">>)>>

\* get_vcs_command() and detect_vcs_type(): the detected type, or an error
DetectResponses ==
    [i \in 1..Len(VcsTypes) |-> Ok(VcsTypes[i])]
        \o [i \in 1..Len(VcsErrors) |-> Raise(VcsErrors[i])]

\* the characters of a status output
Chars == {"M", " ", "\n"}

\* every status output of at most MaxOut characters
Outputs == UNION {[1..n -> Chars] : n \in 0..MaxOut}

\* one call of the VCS helper, as the tools see it
VcsCall(cmd, timeout, resp) == [cmd |-> cmd, timeout |-> timeout, out |-> resp]

(* ------------------------------ tool plumbing ------------------------- *)

\* what one tool invocation did: its outcome, the MemoryManager calls it
\* made (each with the client calls behind it) and its VCS helper calls
Did(out, mem, vcs) == [out |-> out, mem |-> mem, vcs |-> vcs]

\* try: body / except Exception as e: return f"<prefix>{e}"
ExceptReturnsMessage(body, prefix) ==
    IF body.out.raised
    THEN Did(Ok(prefix \o body.out.exc.msg), body.mem, body.vcs)
    ELSE body

\* try: body / except Exception as e: return []
ExceptReturnsEmpty(body) ==
    IF body.out.raised THEN Did(Ok(<<>>), body.mem, body.vcs) ELSE body

\* await memory.<op>(...) followed by return value: a raise leaves the body
Then(m, vcs, value) ==
    IF m.out.raised THEN Did(m.out, <<m>>, vcs) ELSE Did(Ok(value), <<m>>, vcs)

\* an optional str argument that is None
NoneStr == "<None>"

(* ------------------------------ baseline.py --------------------------- *)

BaselineData(manager_name, config_map, system_metadata) ==
    <<"User System -> dotfile_manager: ", manager_name,
      "\nconfigs: ", config_map, "\nsystem_metadata: ", system_metadata>>

\* initialize_system_baseline that confirms without adding a memory
initialize_system_baseline_unstored(memory_manager, manager_name, config_map, system_metadata, resp) ==
    Did(Ok(<<"System Baseline Initialized:\n">>
              \o BaselineData(manager_name, config_map, system_metadata)),
        <<>>, <<>>)

initialize_system_baseline(memory_manager, manager_name, config_map, system_metadata, resp) ==
    LET data == BaselineData(manager_name, config_map, system_metadata)
        m == add_with_redaction(memory_manager, data, [type |-> "baseline"], resp)
        body == Then(m, <<>>, <<"System Baseline Initialized:\n">> \o data)
    IN ExceptReturnsMessage(body, <<"Failed to Initialize Baseline: ">>)

(* ------------------------------ changes.py ---------------------------- *)

ChangeKeys == <<"app_name", "change_type", "description", "rationale",
                "improvement_metric">>

\* the first key of the f-string that data lacks, 0 when it has them all
FirstMissing(data) ==
    IF \E i \in 1..Len(ChangeKeys) : ChangeKeys[i] \notin DOMAIN data
    THEN CHOOSE i \in 1..Len(ChangeKeys) :
            /\ ChangeKeys[i] \notin DOMAIN data
            /\ \A j \in 1..(i - 1) : ChangeKeys[j] \in DOMAIN data
    ELSE 0

ChangeMsg(data) ==
    <<data["app_name"], " change(", data["change_type"], ") -> ",
      data["description"], " \n Why? ", data["rationale"],
      " \n Improvement: ", data["improvement_metric"], " ">>
        \o (IF "vcs_commit_id" \in DOMAIN data /\ data["vcs_commit_id"] # ""
            THEN <<"\nVCS Commit: ", data["vcs_commit_id"]>> ELSE <<>>)

commit_contextual_change(memory, data, resp) ==
    LET k == FirstMissing(data)
        body == IF k # 0
                THEN Did(Raise(Exc("KeyError", <<"'", ChangeKeys[k], "'">>)), <<>>, <<>>)
                ELSE LET m == add_with_redaction(memory, ChangeMsg(data),
                                                 [type |-> "change"], resp)
                     IN Then(m, <<>>, <<"Success: ">> \o m.out.val)
    IN ExceptReturnsMessage(body, <<"Error: ">>)

(* ------------------------------ drift.py ------------------------------ *)

DriftResult(status, vcs_type, modified_files, total_changes, message) ==
    [status |-> status, vcs_type |-> vcs_type, modified_files |-> modified_files,
     total_changes |-> total_changes, message |-> message]

\* the comprehension without its filter: [line.strip() for line in ...]
ModifiedFilesUnfiltered(output) ==
    LET lines == splitlines(output)
    IN [i \in 1..Len(lines) |-> strip(lines[i])]

\* [line.strip() for line in output.splitlines() if line.strip()]
ModifiedFiles(output) ==
    LET lines == splitlines(output)
        stripped == [i \in 1..Len(lines) |-> strip(lines[i])]
    IN SelectSeqIdx(stripped, [i \in 1..Len(lines) |-> stripped[i] # <<>>], 1)

DriftMessage(vcs_type, output) ==
    <<"Drift detected at ", vcs_type, " level:\n">> \o output

\* a drift report that returns 'modified' without storing a memory
DriftReportUnrecorded(memory, vcs_type, output, v, resp) ==
    Did(Ok(DriftResult("modified", vcs_type, ModifiedFiles(output),
                       Len(ModifiedFiles(output)), DriftMessage(vcs_type, output))),
        <<>>, v)

\* a drift report that returns 'modified' although the add raised
DriftReportIgnoringStore(memory, vcs_type, output, v, resp) ==
    LET message == DriftMessage(vcs_type, output)
        m == add_with_redaction(memory, message, [type |-> "drift", vcs |-> vcs_type],
                                resp)
    IN Did(Ok(DriftResult("modified", vcs_type, ModifiedFiles(output),
                          Len(ModifiedFiles(output)), message)),
           <<m>>, v)

\* the branch of check_config_drift for an output that is not blank
DriftReport(memory, vcs_type, output, v, resp) ==
    LET modified_files == ModifiedFiles(output)
        message == DriftMessage(vcs_type, output)
        m == add_with_redaction(memory, message, [type |-> "drift", vcs |-> vcs_type],
                                resp)
    IN Then(m, v, DriftResult("modified", vcs_type, modified_files,
                              Len(modified_files), message))

\* det: get_vcs_command(); st: vcs_cmd.get_status(timeout); resp: client.add
check_config_drift(memory, timeout, det, st, resp) ==
    LET body ==
            IF det.raised THEN Did(det, <<>>, <<VcsCall("detect", 0, det)>>)
            ELSE LET vcs_type == det.val
                     v == <<VcsCall("detect", 0, det), VcsCall("status", timeout, st)>>
                 IN IF st.raised THEN Did(st, <<>>, v)
                    ELSE LET output == st.val
                         IN IF strip(output) = <<>>
                            THEN Did(Ok(DriftResult("clean", vcs_type, <<>>, 0,
                                    <<"No drift detected. System matches repository state.">>)),
                                     <<>>, v)
                            ELSE DriftReport(memory, vcs_type, output, v, resp)
    IN IF body.out.raised
       THEN Did(Ok(DriftResult("error", "git", <<>>, 0,
                               <<"Error checking drift: ">> \o body.out.exc.msg)),
                body.mem, body.vcs)
       ELSE body

(* ------------------------------ history.py ---------------------------- *)

\* the log output of n commits
LogOutput(n) == [i \in 1..n |-> "commit\n"]

\* det: detect_vcs_type(); lg: VCSCommand(vcs).get_log(count, timeout)
ingest_version_history(memory, count, timeout, det, lg, resp) ==
    LET body ==
            IF det.raised THEN Did(det, <<>>, <<VcsCall("detect", 0, det)>>)
            ELSE LET vcs == det.val
                     v == <<VcsCall("detect", 0, det), VcsCall("log", timeout, lg)>>
                 IN IF lg.raised THEN Did(lg, <<>>, v)
                    ELSE LET m == add_with_redaction(memory,
                                    <<"Historical Context (", vcs, "):\n">> \o lg.val,
                                    [type |-> "history"], resp)
                         IN Then(m, v, <<"Ingested last ", ToString(count), " ", vcs,
                                         " commit into memory.">>)
    IN ExceptReturnsMessage(body, <<"Error ingesting history: ">>)

(* ------------------------------ lifecycle.py -------------------------- *)

LifecycleMsg(action, old_config, new_config, logic) ==
    <<"Lifecycle Event: ", action, " on ", old_config.d["app_name"], ". ">>
        \o (IF Truthy(new_config)
            THEN <<"Replaced by ", new_config.d["app_name"], ". ">> ELSE <<>>)
        \o <<"Logic: ", logic>>

track_lifecycle_events(memory, action, old_config, new_config, logic, resp) ==
    LET msg == LifecycleMsg(action, old_config, new_config, logic)
        m == add_with_redaction(memory, msg, [type |-> "lifecycle"], resp)
        body == Then(m, <<>>, msg \o <<" has been logged in memory">>)
    IN ExceptReturnsMessage(body, <<"Failed to log Lifecycle Event: ">>)

(* ------------------------------ roadmap.py ---------------------------- *)

log_conceptual_roadmap(memory, idea_title, hypothesis, blockers, priority, resp) ==
    LET msg == <<"Roadmap Idea: ", idea_title, "\nHypothesis: ", hypothesis,
                 "\nBlockers: ", blockers, "\nPriority: ", priority>>
        m == add_with_redaction(memory, msg,
                                [type |-> "roadmap", priority |-> priority], resp)
        body == Then(m, <<>>, <<"Roadmap Entry saved">>)
    IN ExceptReturnsMessage(body, <<"Failed to save Roadmap Entry: ">>)

\* the attributes of a dict object
DictAttributes == {"get", "items", "keys", "values", "pop", "update"}

\* obj.name: attribute access, never a key lookup
GetAttr(obj, name) ==
    IF obj.t = "dict" /\ name \in DictAttributes
    THEN Ok(PyStr(<<"<built-in method ", name, ">">>))
    ELSE Raise(Exc("AttributeError",
                   <<"'", obj.t, "' object has no attribute '", name, "'">>))

RoadmapQuery(status, priority) ==
    <<"roadmap ", status>>
        \o (IF priority # NoneStr /\ priority # ""
            THEN <<" ", priority, " priority">> ELSE <<>>)

\* query_roadmap without its try/except
query_roadmap_unguarded(memory, status, priority, resp) ==
    LET m == search(memory, RoadmapQuery(status, priority), 10, resp)
    IN IF m.out.raised THEN Did(m.out, <<m>>, <<>>)
       ELSE LET results == GetAttr(m.out.val, "results")
            IN IF results.raised THEN Did(results, <<m>>, <<>>)
               ELSE Did(Ok(results.val), <<m>>, <<>>)

query_roadmap(memory, status, priority, resp) ==
    LET m == search(memory, RoadmapQuery(status, priority), 10, resp)
        body == IF m.out.raised THEN Did(m.out, <<m>>, <<>>)
                ELSE LET results == GetAttr(m.out.val, "results")
                     IN IF results.raised THEN Did(results, <<m>>, <<>>)
                        ELSE Did(Ok(results.val), <<m>>, <<>>)
    IN ExceptReturnsEmpty(body)

(* ------------------------------ trials.py ----------------------------- *)

manage_trial(memory, name, trial_period, success_criteria, resp) ==
    LET msg == <<"Tool/Plugin Trial: ", name, " for ", ToString(trial_period),
                 " days. Success if: ", success_criteria>>
        m == add_with_redaction(memory, msg, [type |-> "trial", active |-> TRUE], resp)
        body == Then(m, <<>>, <<ToString(trial_period),
                                " days Trial has been set for ", name>>)
    IN ExceptReturnsMessage(body, <<"Failed to set Trial for ", name, ": ">>)

\* raw_results.get("results", [])
GetResults(raw_results) ==
    IF "results" \in DOMAIN raw_results.d THEN raw_results.d["results"] ELSE <<>>

list_active_trials(memory, min_days_active, resp) ==
    LET m == search(memory, <<"active plugin trials">>, 10, resp)
        body == IF m.out.raised THEN Did(m.out, <<m>>, <<>>)
                ELSE Did(Ok(GetResults(m.out.val)), <<m>>, <<>>)
    IN ExceptReturnsEmpty(body)

(* ------------------------------ troubleshooting.py -------------------- *)

log_troubleshooting_event(memory, error_signature, root_cause, fix_steps, resp) ==
    LET msg == <<"Troubleshooting: ", error_signature, "\nCause: ", root_cause,
                 "\nFix: ", fix_steps>>
        m == add_with_redaction(memory, msg, [type |-> "troubleshoot"], resp)
        body == Then(m, <<>>, <<"Troubleshooting Knowledge Base Updated. Added: ",
                                error_signature>>)
    IN ExceptReturnsMessage(body, <<"Failed to add ", error_signature,
                                    " troubleshooting to memory: ">>)

get_troubleshooting_guide(memory, error_keyword, resp) ==
    LET m == search(memory, <<"troubleshooting ", error_keyword>>, 10, resp)
        body == IF m.out.raised THEN Did(m.out, <<m>>, <<>>)
                ELSE Did(Ok(GetResults(m.out.val)), <<m>>, <<>>)
    IN ExceptReturnsEmpty(body)

(* ------------------------------ updates.py ---------------------------- *)

\* update_memory that confirms whatever the update did
update_memory_always_confirms(memory, memory_id, new_text, resp) ==
    Did(Ok(<<"Memory ", memory_id, " updated successfully.">>),
        <<update(memory, memory_id, new_text, resp)>>, <<>>)

update_memory(memory, memory_id, new_text, resp) ==
    LET m == update(memory, memory_id, new_text, resp)
        body == Then(m, <<>>, <<"Memory ", memory_id, " updated successfully.">>)
    IN ExceptReturnsMessage(body, <<"Error updating memory[", memory_id, "]: ">>)

(* ------------------------------ queries.py ---------------------------- *)

\* tools.queries.get_config_context: a search behind the tool boundary
get_config_context(memory, app_name, resp) ==
    LET m == search(memory, <<"configuration context for ", app_name>>, 10, resp)
        body == IF m.out.raised THEN Did(m.out, <<m>>, <<>>)
                ELSE Did(Ok(GetResults(m.out.val)), <<m>>, <<>>)
    IN ExceptReturnsEmpty(body)

(* ------------------------------ inputs -------------------------------- *)

\* free-text arguments: a plain word and one that carries a secret
Words == {"zsh", "sk-s3cr3t"}

\* the records a search of the store may return
Trial1 == PyDict([id |-> "m1", memory |-> "trial of fzf", days_active |-> 1])
Trial9 == PyDict([id |-> "m2", memory |-> "trial of starship", days_active |-> 9])
NoIdItem == PyDict([memory |-> "orphan"])
NoMemoryItem == PyDict([id |-> "m3"])
StrItem == PyStr(<<"junk">>)

\* what client.search may return
SearchPayloads ==
    << PyNone,
       PyList(<<>>),
       PyList(<<Trial1, Trial9>>),
       PyList(<<NoIdItem, Trial9, StrItem>>),
       PyDict([results |-> PyList(<<Trial1, Trial9>>), relations |-> PyNone]),
       PyDict([results |-> PyList(<<Trial9, NoIdItem, Trial1>>),
               relations |-> PyList(<<PyStr(<<"uses">>)>>)]),
       PyDict([results |-> PyList(<<Trial1>>)]),
       PyDict([relations |-> PyList(<<>>)]),
       PyDict([results |-> PyStr(<<"n/a">>), relations |-> PyNone]),
       PyDict(<<>>),
       PyStr(<<"oops">>),
       PyList(<<NoMemoryItem, Trial1, NoIdItem>>) >>

\* the responses of client.search
SearchResponses ==
    [i \in 1..Len(SearchPayloads) |-> Ok(SearchPayloads[i])]
        \o [i \in 1..Len(ClientErrors) |-> Raise(ClientErrors[i])]

\* AppChange dicts: complete, without a commit id, with an empty one, and
\* one that lacks a required key
Changes ==
    << [app_name |-> "zsh", change_type |-> "fix", description |-> "alias",
        rationale |-> "speed", improvement_metric |-> "-50ms",
        vcs_commit_id |-> "abc123"],
       [app_name |-> "zsh", change_type |-> "fix", description |-> "sk-s3cr3t",
        rationale |-> "speed", improvement_metric |-> "-50ms"],
       [app_name |-> "nvim", change_type |-> "keybind", description |-> "leader",
        rationale |-> "habit", improvement_metric |-> "none",
        vcs_commit_id |-> ""],
       [app_name |-> "nvim", change_type |-> "keybind", description |-> "leader",
        improvement_metric |-> "none"] >>

\* AppConfig values for new_config: None, an empty dict, a configuration
NewConfigs == <<PyNone, PyDict(<<>>), PyDict([app_name |-> "nvim"])>>

Priorities == {"LOW", "MEDIUM", "HIGH"}

\* timeout=10 of check_config_drift and ingest_version_history
DefaultTimeout == 10

(* ------------------------------ state --------------------------------- *)

Init ==
    /\ \E u \in 1..Len(UserIdEnv), t \in 1..Len(VcsTimeoutEnv) :
            environ = [user_id |-> UserIdEnv[u], vcs_timeout |-> VcsTimeoutEnv[t]]
    /\ last = NoCall
    /\ cli = NoCli
    /\ baseline = NoBaseline

\* the server's manager: MemoryManager(ServerConfig())
Idle == last = NoCall /\ cli = NoCli
Configured == ~ServerConfig(environ).raised
Memory == MemoryManager(ServerConfig(environ).val)

\* the client calls of a tool invocation, in order
ClientCalls(d) == IF d.mem = <<>> THEN <<>> ELSE d.mem[1].calls

\* a tool was called with args and did d
Called(tool, args, d) ==
    last' = [tool |-> tool, args |-> args, out |-> d.out, mem |-> d.mem, vcs |-> d.vcs]

\* what one invocation adds to the baseline history
Counted(tool, args, d) ==
    LET confirmed == /\ tool = "initialize_system_baseline"
                     /\ ~d.out.raised
                     /\ Head(d.out.val) = "System Baseline Initialized:\n"
        entries == {i \in 1..Len(ClientCalls(d)) :
                        /\ ClientCalls(d)[i].op = "add"
                        /\ ~ClientCalls(d)[i].raised
                        /\ ClientCalls(d)[i].metadata.type = "baseline"}
        first_args == IF baseline.calls = 0 /\ confirmed THEN args ELSE baseline.args
        first_text == IF baseline.stored = 0 /\ entries # {}
                      THEN ClientCalls(d)[CHOOSE i \in entries :
                                            \A j \in entries : i <= j].text
                      ELSE baseline.text
    IN baseline' =
          [calls |-> baseline.calls + (IF confirmed THEN 1 ELSE 0),
           stored |-> baseline.stored + Cardinality(entries),
           args |-> first_args,
           repeats |-> baseline.repeats
                          + (IF confirmed /\ args = first_args THEN 1 ELSE 0),
           text |-> first_text,
           copies |-> baseline.copies
                          + Cardinality({i \in entries :
                                            ClientCalls(d)[i].text = first_text})]

(* ------------------------------ tool calls ---------------------------- *)

InitializeSystemBaseline ==
    /\ Idle /\ Configured /\ baseline.calls < MaxCalls
    /\ \E manager_name \in {"stow", "chezmoi"}, extra \in Words,
          r \in 1..Len(WriteResponses) :
          LET d == initialize_system_baseline(Memory, manager_name, "[zsh]", extra,
                                              WriteResponses[r])
              args == [manager_name |-> manager_name, system_metadata |-> extra]
          IN /\ Called("initialize_system_baseline", args, d)
             /\ Counted("initialize_system_baseline", args, d)
    /\ UNCHANGED <<environ, cli>>

CommitContextualChange ==
    /\ Idle /\ Configured
    /\ \E c \in 1..Len(Changes), r \in 1..Len(WriteResponses) :
          Called("commit_contextual_change", [data |-> Changes[c]],
                 commit_contextual_change(Memory, Changes[c], WriteResponses[r]))
    /\ UNCHANGED <<environ, cli, baseline>>

CheckConfigDrift ==
    /\ Idle /\ Configured
    /\ \E timeout \in {DefaultTimeout, Memory.config.vcs_timeout},
          dt \in 1..Len(DetectResponses),
          st \in {Ok(o) : o \in Outputs} \cup {Raise(VcsErrors[i]) : i \in 1..Len(VcsErrors)},
          r \in 1..Len(WriteResponses) :
          Called("check_config_drift", [timeout |-> timeout],
                 check_config_drift(Memory, timeout, DetectResponses[dt], st,
                                    WriteResponses[r]))
    /\ UNCHANGED <<environ, cli, baseline>>

IngestVersionHistory ==
    /\ Idle /\ Configured
    /\ \E count \in 1..2, dt \in 1..Len(DetectResponses),
          r \in 1..Len(WriteResponses) :
          \E lg \in {Ok(LogOutput(n)) : n \in 0..count}
                        \cup {Raise(VcsErrors[i]) : i \in 1..Len(VcsErrors)} :
              Called("ingest_version_history",
                     [count |-> count, timeout |-> DefaultTimeout],
                     ingest_version_history(Memory, count, DefaultTimeout,
                                            DetectResponses[dt], lg, WriteResponses[r]))
    /\ UNCHANGED <<environ, cli, baseline>>

TrackLifecycleEvents ==
    /\ Idle /\ Configured
    /\ \E action \in {"DEPRECATE", "REPLACE"}, n \in 1..Len(NewConfigs),
          logic \in Words, r \in 1..Len(WriteResponses) :
          Called("track_lifecycle_events",
                 [action |-> action, new_config |-> NewConfigs[n], logic |-> logic],
                 track_lifecycle_events(Memory, action, PyDict([app_name |-> "vim"]),
                                        NewConfigs[n], logic, WriteResponses[r]))
    /\ UNCHANGED <<environ, cli, baseline>>

LogConceptualRoadmap ==
    /\ Idle /\ Configured
    /\ \E hypothesis \in Words, priority \in Priorities, r \in 1..Len(WriteResponses) :
          Called("log_conceptual_roadmap",
                 [hypothesis |-> hypothesis, priority |-> priority],
                 log_conceptual_roadmap(Memory, "Hyprland", hypothesis, "GPU",
                                        priority, WriteResponses[r]))
    /\ UNCHANGED <<environ, cli, baseline>>

QueryRoadmap ==
    /\ Idle /\ Configured
    /\ \E status \in {"pending", "blocked"}, priority \in Priorities \cup {NoneStr},
          r \in 1..Len(SearchResponses) :
          Called("query_roadmap", [status |-> status, priority |-> priority],
                 query_roadmap(Memory, status, priority, SearchResponses[r]))
    /\ UNCHANGED <<environ, cli, baseline>>

ManageTrial ==
    /\ Idle /\ Configured
    /\ \E name \in {"fzf", "starship"}, trial_period \in {7, 30},
          success_criteria \in Words, r \in 1..Len(WriteResponses) :
          Called("manage_trial",
                 [name |-> name, trial_period |-> trial_period,
                  success_criteria |-> success_criteria],
                 manage_trial(Memory, name, trial_period, success_criteria,
                              WriteResponses[r]))
    /\ UNCHANGED <<environ, cli, baseline>>

ListActiveTrials ==
    /\ Idle /\ Configured
    /\ \E min_days_active \in {0, 7}, r \in 1..Len(SearchResponses) :
          Called("list_active_trials", [min_days_active |-> min_days_active],
                 list_active_trials(Memory, min_days_active, SearchResponses[r]))
    /\ UNCHANGED <<environ, cli, baseline>>

LogTroubleshootingEvent ==
    /\ Idle /\ Configured
    /\ \E error_signature \in {"E492", "segfault"}, fix_steps \in Words,
          r \in 1..Len(WriteResponses) :
          Called("log_troubleshooting_event",
                 [error_signature |-> error_signature, fix_steps |-> fix_steps],
                 log_troubleshooting_event(Memory, error_signature, "plugin",
                                           fix_steps, WriteResponses[r]))
    /\ UNCHANGED <<environ, cli, baseline>>

GetTroubleshootingGuide ==
    /\ Idle /\ Configured
    /\ \E error_keyword \in {"E492", "segfault"}, r \in 1..Len(SearchResponses) :
          Called("get_troubleshooting_guide", [error_keyword |-> error_keyword],
                 get_troubleshooting_guide(Memory, error_keyword, SearchResponses[r]))
    /\ UNCHANGED <<environ, cli, baseline>>

UpdateMemory ==
    /\ Idle /\ Configured
    /\ \E memory_id \in {"m1", "m2"}, new_text \in Words, r \in 1..Len(WriteResponses) :
          Called("update_memory", [memory_id |-> memory_id, new_text |-> new_text],
                 update_memory(Memory, memory_id, <<"Terminal: ", new_text>>,
                               WriteResponses[r]))
    /\ UNCHANGED <<environ, cli, baseline>>

(* ------------------------------ cli.py -------------------------------- *)

Printed(v) == [e |-> "print", v |-> v]
ToolCall(tool) == [e |-> "call", v |-> tool]

\* a command that calls its tool before it prints anything
CommandEventsCallFirst(progress, tool, d) ==
    <<ToolCall(tool), Printed(progress)>>
        \o (IF d.out.raised THEN <<>> ELSE <<Printed(d.out.val)>>)

\* what a command whose get_memory() returned does, in order: the progress
\* line, the tool call, the result line (none when the tool raises)
CommandEvents(progress, tool, d) ==
    <<Printed(progress), ToolCall(tool)>>
        \o (IF d.out.raised THEN <<>> ELSE <<Printed(d.out.val)>>)

\* print(progress); memory = get_memory() raises: the command ends there
CommandRejected(cmd, progress) ==
    /\ cli' = [cmd |-> cmd, events |-> <<Printed(progress)>>, exit_code |-> 1]
    /\ UNCHANGED <<last, baseline>>

\* print(progress); memory = get_memory();
\* result = asyncio.run(tool(memory, ...)); print(result), the tool did d
CommandRan(cmd, progress, tool, args, d) ==
    /\ Called(tool, args, d)
    /\ cli' = [cmd |-> cmd, events |-> CommandEvents(progress, tool, d),
               exit_code |-> IF d.out.raised THEN 1 ELSE 0]
    /\ Counted(tool, args, d)

drift_check ==
    /\ Idle
    /\ IF ~Configured
       THEN CommandRejected("drift-check", <<"Checking for drift...">>)
       ELSE \E dt \in 1..Len(DetectResponses),
               st \in {Ok(o) : o \in Outputs}
                        \cup {Raise(VcsErrors[i]) : i \in 1..Len(VcsErrors)},
               r \in 1..Len(WriteResponses) :
               CommandRan("drift-check", <<"Checking for drift...">>,
                          "check_config_drift", [timeout |-> DefaultTimeout],
                          check_config_drift(Memory, DefaultTimeout, DetectResponses[dt],
                                             st, WriteResponses[r]))
    /\ UNCHANGED environ

context ==
    /\ Idle
    /\ \E app_name \in {"vim", "zsh"} :
          IF ~Configured
          THEN CommandRejected("context", <<"Retrieving context for ", app_name, "...">>)
          ELSE \E r \in 1..Len(SearchResponses) :
                  CommandRan("context", <<"Retrieving context for ", app_name, "...">>,
                             "get_config_context", [app_name |-> app_name],
                             get_config_context(Memory, app_name, SearchResponses[r]))
    /\ UNCHANGED environ

init_baseline ==
    /\ Idle /\ baseline.calls < MaxCalls
    /\ IF ~Configured
       THEN CommandRejected("init-baseline", <<"Initializing baseline with mock data...">>)
       ELSE \E r \in 1..Len(WriteResponses) :
               CommandRan("init-baseline", <<"Initializing baseline with mock data...">>,
                          "initialize_system_baseline",
                          [manager_name |-> "manual-cli", system_metadata |-> "CLI-Test-OS"],
                          initialize_system_baseline(Memory, "manual-cli", "[cli-test]",
                                                     "CLI-Test-OS", WriteResponses[r]))
    /\ UNCHANGED environ

\* the call returns to the agent, the command's process exits
Return ==
    /\ ~Idle
    /\ last' = NoCall
    /\ cli' = NoCli
    /\ UNCHANGED <<environ, baseline>>

Next ==
    \/ InitializeSystemBaseline
    \/ CommitContextualChange
    \/ CheckConfigDrift
    \/ IngestVersionHistory
    \/ TrackLifecycleEvents
    \/ LogConceptualRoadmap
    \/ QueryRoadmap
    \/ ManageTrial
    \/ ListActiveTrials
    \/ LogTroubleshootingEvent
    \/ GetTroubleshootingGuide
    \/ UpdateMemory
    \/ drift_check
    \/ context
    \/ init_baseline
    \/ Return

Spec == Init /\ [][Next]_vars

(* ====================================================================== *)
(* Properties                                                             *)
(* ====================================================================== *)

\* the twelve tool functions
ToolNames ==
    {"initialize_system_baseline", "commit_contextual_change", "check_config_drift",
     "ingest_version_history", "track_lifecycle_events", "log_conceptual_roadmap",
     "query_roadmap", "manage_trial", "list_active_trials",
     "log_troubleshooting_event", "get_troubleshooting_guide", "update_memory"}

\* the MemoryManager call of the last invocation raised / returned
ManagerRaised == last.mem # <<>> /\ last.mem[1].out.raised
ManagerReturned == last.mem # <<>> /\ ~last.mem[1].out.raised

\* a VCS helper call of the last invocation raised
VcsRaised == \E i \in 1..Len(last.vcs) : last.vcs[i].out.raised

\* C1: no tool function propagates an exception: whatever the VCS helper or
\* the MemoryManager raised during the call, the call ended by returning a
\* value.
C1_NoToolPropagates ==
    last.tool \in ToolNames => ~last.out.raised

\* C1 witness: a tool returned although its MemoryManager call raised.
C1_Witness ==
    /\ last.tool = "query_roadmap"
    /\ ManagerRaised
    /\ ~last.out.raised

\* C2: every add and update the client receives carries
\* redact_secrets(text) of the text the tool passed, so no secret token
\* reaches the client.
C2_WritesRedacted ==
    \A i \in 1..Len(ClientCalls(last)) :
        LET call == ClientCalls(last)[i]
        IN call.op \in {"add", "update"} =>
              /\ call.text = redact_secrets(call.caller_text)
              /\ Range(call.text) \cap SecretTokens = {}

\* C2 witness: a tool passed a text with a secret and the client received
\* another text.
C2_Witness ==
    /\ last.tool = "update_memory"
    /\ \E i \in 1..Len(ClientCalls(last)) :
          /\ Range(ClientCalls(last)[i].caller_text) \cap SecretTokens # {}
          /\ ClientCalls(last)[i].text # ClientCalls(last)[i].caller_text

\* the tools that store, and the literal part of each one's confirmation
ConfirmText ==
    [initialize_system_baseline |-> "System Baseline Initialized:\n",
     commit_contextual_change |-> "Success: ",
     ingest_version_history |-> "Ingested last ",
     track_lifecycle_events |-> " has been logged in memory",
     log_conceptual_roadmap |-> "Roadmap Entry saved",
     manage_trial |-> " days Trial has been set for ",
     log_troubleshooting_event |-> "Troubleshooting Knowledge Base Updated. Added: ",
     update_memory |-> " updated successfully."]

Confirmed == ConfirmText[last.tool] \in Range(last.out.val)

\* C3: a storing tool returns its confirmation exactly when the
\* MemoryManager add/update call returned; when that call raised, the tool
\* returns a string that contains the exception's message and not the
\* confirmation text.
C3_SuccessOnlyWhenStored ==
    last.tool \in DOMAIN ConfirmText =>
        /\ ~last.out.raised
        /\ Confirmed <=> ManagerReturned
        /\ ManagerRaised =>
              /\ Contains(last.out.val, last.mem[1].out.exc.msg)
              /\ ~Confirmed

\* C3 witness: the store call of a storing tool raised and the tool returned.
C3_Witness ==
    /\ last.tool = "update_memory"
    /\ ManagerRaised
    /\ ~last.out.raised

\* a file name with a character that is not white space
NotBlank(entry) == \E i \in 1..Len(entry) : ~IsSpace(entry[i])

\* C4: in every DriftResult total_changes is the length of modified_files;
\* 'clean' and 'error' have no modified file; 'modified' has at least one
\* and none of them is empty or blank.
C4_DriftResultShape ==
    (last.tool = "check_config_drift" /\ ~last.out.raised) =>
        LET r == last.out.val
        IN /\ r.total_changes = Len(r.modified_files)
           /\ r.status \in {"clean", "modified", "error"}
           /\ r.status \in {"clean", "error"} =>
                 r.modified_files = <<>> /\ r.total_changes = 0
           /\ r.status = "modified" =>
                 /\ Len(r.modified_files) >= 1
                 /\ \A i \in 1..Len(r.modified_files) : NotBlank(r.modified_files[i])

\* C4 witness: drift over two files, from an output with white space that
\* is not part of a name.
C4_Witness ==
    /\ last.tool = "check_config_drift"
    /\ last.out.val.status = "modified"
    /\ last.out.val.total_changes = 2

\* the status command of the last drift check ran and succeeded
StatusSucceeded ==
    /\ Len(last.vcs) = 2
    /\ ~last.vcs[1].out.raised
    /\ ~last.vcs[2].out.raised

\* its output has a character that is not white space
StatusOutput == last.vcs[2].out.val

\* C5 as stated: 'clean' on blank output, 'modified' whenever the status
\* command succeeds with a non-blank output, 'error' only when the VCS
\* detection or the status command fails.
C5_StatusReflectsVcsOnly ==
    (last.tool = "check_config_drift" /\ ~last.out.raised) =>
        /\ (StatusSucceeded /\ ~NotBlank(StatusOutput)) => last.out.val.status = "clean"
        /\ (StatusSucceeded /\ NotBlank(StatusOutput)) => last.out.val.status = "modified"
        /\ last.out.val.status = "error" => VcsRaised

\* C5 amended: 'clean' exactly on a successful status with blank output;
\* 'modified' exactly on a successful status with non-blank output whose
\* drift memory was stored; 'error' exactly when the VCS detection, the
\* status command or the memory add raised.
C5_StatusReflectsVcsAndStore ==
    (last.tool = "check_config_drift" /\ ~last.out.raised) =>
        /\ last.out.val.status = "clean" <=>
              (StatusSucceeded /\ ~NotBlank(StatusOutput))
        /\ last.out.val.status = "modified" <=>
              (StatusSucceeded /\ NotBlank(StatusOutput) /\ ManagerReturned)
        /\ last.out.val.status = "error" <=> (VcsRaised \/ ManagerRaised)

\* C5 witness: the status command reported drift, the memory add raised and
\* the result is 'error'.
C5_Witness ==
    /\ last.tool = "check_config_drift"
    /\ StatusSucceeded /\ NotBlank(StatusOutput)
    /\ ManagerRaised
    /\ last.out.val.status = "error"

\* C6: a 'modified' result is returned only after exactly one completed
\* add_with_redaction call with metadata type 'drift' and the detected vcs;
\* a 'clean' result comes with no memory call at all.
C6_DriftStoredWhenDetected ==
    (last.tool = "check_config_drift" /\ ~last.out.raised) =>
        /\ last.out.val.status = "modified" =>
              /\ Len(last.mem) = 1
              /\ Len(ClientCalls(last)) = 1
              /\ ClientCalls(last)[1].op = "add"
              /\ ~ClientCalls(last)[1].raised
              /\ ClientCalls(last)[1].metadata
                    = [type |-> "drift", vcs |-> last.out.val.vcs_type]
              /\ last.out.val.vcs_type = last.vcs[1].out.val
        /\ last.out.val.status = "clean" => last.mem = <<>>

\* C6 witness: drift was found under jj and reported as 'modified'.
C6_Witness ==
    /\ last.tool = "check_config_drift"
    /\ last.out.val.status = "modified"
    /\ last.out.val.vcs_type = "jj"
    /\ ManagerReturned

\* the metadata each storing tool passes, by its arguments
ToolMetadata ==
    CASE last.tool = "initialize_system_baseline" -> [type |-> "baseline"]
      [] last.tool = "commit_contextual_change" -> [type |-> "change"]
      [] last.tool = "check_config_drift" ->
            [type |-> "drift", vcs |-> last.vcs[1].out.val]
      [] last.tool = "ingest_version_history" -> [type |-> "history"]
      [] last.tool = "track_lifecycle_events" -> [type |-> "lifecycle"]
      [] last.tool = "log_conceptual_roadmap" ->
            [type |-> "roadmap", priority |-> last.args.priority]
      [] last.tool = "manage_trial" -> [type |-> "trial", active |-> TRUE]
      [] last.tool = "log_troubleshooting_event" -> [type |-> "troubleshoot"]

\* the tools that add a memory
AddingTools == (DOMAIN ConfirmText \ {"update_memory"}) \cup {"check_config_drift"}

\* C7: a storing tool makes at most one add_with_redaction call per
\* invocation, and the client receives that call's metadata as the tool
\* wrote it, with the tool's own value under 'type'.
C7_TypeTagPerTool ==
    last.tool \in AddingTools =>
        /\ Len(last.mem) <= 1
        /\ Len(ClientCalls(last)) <= 1
        /\ \A i \in 1..Len(ClientCalls(last)) :
              /\ ClientCalls(last)[i].op = "add"
              /\ ClientCalls(last)[i].metadata = ToolMetadata

\* C7 witness: a roadmap entry was added with its type and priority.
C7_Witness ==
    /\ last.tool = "log_conceptual_roadmap"
    /\ ManagerReturned
    /\ ClientCalls(last)[1].metadata = [type |-> "roadmap", priority |-> "HIGH"]

\* the tool and the progress line of each command
CommandTool ==
    [drift_check |-> "check_config_drift", context |-> "get_config_context",
     init_baseline |-> "initialize_system_baseline"]

CommandKey ==
    CASE cli.cmd = "drift-check" -> "drift_check"
      [] cli.cmd = "context" -> "context"
      [] cli.cmd = "init-baseline" -> "init_baseline"

ProgressLine ==
    CASE cli.cmd = "drift-check" -> <<"Checking for drift...">>
      [] cli.cmd = "context" -> <<"Retrieving context for ", last.args.app_name, "...">>
      [] cli.cmd = "init-baseline" -> <<"Initializing baseline with mock data...">>

\* the command printed its line, called its tool once, printed what the
\* tool returned and exited with code 0
RanToCompletion ==
    /\ Len(cli.events) = 3
    /\ cli.events[1].e = "print" /\ cli.events[1].v = ProgressLine
    /\ cli.events[2].e = "call" /\ cli.events[2].v = CommandTool[CommandKey]
    /\ last.tool = CommandTool[CommandKey]
    /\ ~last.out.raised
    /\ cli.events[3].e = "print" /\ cli.events[3].v = last.out.val
    /\ cli.exit_code = 0

\* C8 as stated: every command prints its progress line, calls its tool
\* once, prints the returned value and exits with code 0.
C8_CommandAlwaysCompletes ==
    cli.cmd # "none" => RanToCompletion

\* C8 amended: a command whose configuration validates (get_memory()
\* returns) runs to completion; one whose configuration is rejected prints
\* only its progress line, calls no tool and exits with a non-zero code.
C8_CommandCompletesWhenConfigured ==
    cli.cmd # "none" =>
        /\ Configured => RanToCompletion
        /\ ~Configured =>
              /\ Len(cli.events) = 1
              /\ cli.events[1].e = "print"
              /\ last = NoCall
              /\ cli.exit_code # 0

\* C8 witness: drift-check printed an 'error' result and exited with 0.
C8_Witness ==
    /\ cli.cmd = "drift-check"
    /\ Len(cli.events) = 3
    /\ last.out.val.status = "error"
    /\ cli.exit_code = 0

\* C9 as stated: when MemoryManager.search succeeds for the query
\* 'roadmap <status>[ <priority> priority]', query_roadmap returns the
\* 'results' list of that SearchResult.
C9_RoadmapReturnsResults ==
    (last.tool = "query_roadmap" /\ ManagerReturned /\ ~last.out.raised) =>
        /\ ClientCalls(last)[1].query = RoadmapQuery(last.args.status, last.args.priority)
        /\ last.out.val = last.mem[1].out.val.d.results

\* C10 as stated: list_active_trials returns only trials that have been
\* active for at least min_days_active days.
C10_TrialsFilteredByAge ==
    (last.tool = "list_active_trials" /\ ~last.out.raised) =>
        \A i \in 1..Len(last.out.val) :
            last.out.val[i].d.days_active >= last.args.min_days_active

\* the add calls of the last invocation that the client accepted
StoredCalls ==
    {i \in 1..Len(ClientCalls(last)) :
        ClientCalls(last)[i].op = "add" /\ ~ClientCalls(last)[i].raised}

\* C11 as stated: track_lifecycle_events called with action 'REPLACE' and
\* new_config None neither stores nor confirms a lifecycle event, and a
\* stored message contains 'Replaced by <new app>' exactly when the action
\* is 'REPLACE'.
C11_ReplaceRequiresNewConfig ==
    last.tool = "track_lifecycle_events" =>
        /\ (last.args.action = "REPLACE" /\ last.args.new_config.t = "none") =>
              (StoredCalls = {} /\ ~Confirmed)
        /\ \A i \in StoredCalls :
              "Replaced by " \in Range(ClientCalls(last)[i].text)
                  <=> last.args.action = "REPLACE"

\* the commits of a log output
Commits(output) == Len(output)

\* the log output the last ingest_version_history call stored
StoredLog == last.vcs[2].out.val

\* C12 as stated: on success the number in 'Ingested last N <vcs> commit
\* into memory.' is the number of commits in the log output that was stored,
\* also when the repository has fewer than count commits, and the VCS named
\* is the detected one.
C12_IngestedCountIsCommitsStored ==
    (last.tool = "ingest_version_history" /\ ManagerReturned /\ ~last.out.raised) =>
        last.out.val = <<"Ingested last ", ToString(Commits(StoredLog)), " ",
                         last.vcs[1].out.val, " commit into memory.">>

\* C13 as stated: every call the MemoryManager makes to the client (add,
\* search and update) carries the user_id of the configuration the manager
\* was built from.
C13_ClientCallsScopedToUser ==
    \A i \in 1..Len(ClientCalls(last)) :
        /\ "user_id" \in DOMAIN ClientCalls(last)[i]
        /\ ClientCalls(last)[i].user_id = Memory.user_id

\* C14 as stated: the status command the drift-check command runs gets the
\* timeout of the configuration (DOTFILES_VCS_TIMEOUT, default 10).
C14_DriftCheckUsesConfiguredTimeout ==
    (cli.cmd = "drift-check" /\ Configured /\ Len(last.vcs) = 2) =>
        /\ last.vcs[2].cmd = "status"
        /\ last.vcs[2].timeout = ServerConfig(environ).val.vcs_timeout

\* the MemoryManager.search call of the last invocation: what the client
\* answered and what search returned
SearchAnswered ==
    /\ last.mem # <<>>
    /\ ClientCalls(last)[1].op = "search"
    /\ ~ClientCalls(last)[1].raised
    /\ ClientCalls(last)[1].returned.val.t \in {"list", "dict"}
Answer == ClientCalls(last)[1].returned.val
Found == last.mem[1].out.val.d

\* the items of the answer: the list itself, or the dict's 'results' when
\* that is a list
AnswerItems ==
    IF Answer.t = "list" THEN Answer.items
    ELSE IF "results" \in DOMAIN Answer.d /\ Answer.d["results"].t = "list"
    THEN Answer.d["results"].items
    ELSE <<>>

\* the positions of the answer's items that are dicts with 'id' and 'memory'
ShapeValid ==
    {i \in 1..Len(AnswerItems) :
        /\ AnswerItems[i].t = "dict"
        /\ {"id", "memory"} \subseteq DOMAIN AnswerItems[i].d}

\* C15: for a client answer that is a list or a dict, search returns a
\* SearchResult whose 'results' holds exactly the shape-valid items of the
\* answer, each once and in the answer's order (none when a dict's
\* 'results' is missing or not a list), and whose 'relations' is the dict's
\* 'relations' value, None for a list and for a dict without one.
C15_SearchKeepsValidRecords ==
    SearchAnswered =>
        /\ ~last.mem[1].out.raised
        /\ Len(Found.results) = Cardinality(ShapeValid)
        /\ \A i \in ShapeValid :
              Found.results[Cardinality({j \in ShapeValid : j <= i})] = AnswerItems[i]
        /\ Found.relations =
              (IF Answer.t = "dict" /\ "relations" \in DOMAIN Answer.d
               THEN Answer.d["relations"] ELSE PyNone)

\* C15 witness: the client answered with three items of which the first
\* and the last fail the shape check, and search returned the middle one.
C15_Witness ==
    /\ SearchAnswered
    /\ Len(AnswerItems) = 3
    /\ ShapeValid = {2}
    /\ Len(Found.results) = 1

\* the client method behind the MemoryManager method each tool calls
ManagerMethod ==
    IF last.tool = "update_memory" THEN "update"
    ELSE IF last.tool \in {"query_roadmap", "list_active_trials",
                           "get_troubleshooting_guide", "get_config_context"}
    THEN "search"
    ELSE "add"

\* C16: every MemoryManager call of an invocation made exactly one client
\* call, of the method that corresponds to it; when the client raised in an
\* add or an update, the manager raised that same exception.
C16_SingleShotNoRetry ==
    \A k \in 1..Len(last.mem) :
        /\ Len(last.mem[k].calls) = 1
        /\ last.mem[k].calls[1].op = ManagerMethod
        /\ (last.mem[k].calls[1].raised /\ ManagerMethod \in {"add", "update"}) =>
              last.mem[k].out = last.mem[k].calls[1].returned

\* C16 witness: the client raised in an update, the manager raised the same
\* exception and the client was called once.
C16_Witness ==
    /\ last.tool = "update_memory"
    /\ Len(last.mem) = 1
    /\ Len(last.mem[1].calls) = 1
    /\ last.mem[1].calls[1].raised
    /\ last.mem[1].out.raised
    /\ last.mem[1].out.exc.type = "ValueError"

\* the last call confirmed a baseline
BaselineConfirmed ==
    /\ last.tool = "initialize_system_baseline"
    /\ ~last.out.raised
    /\ Head(last.out.val) = "System Baseline Initialized:\n"

\* C17: initialize_system_baseline never calls search, and every call that
\* confirms a baseline sent one more entry of type 'baseline' that the
\* client accepted: over the run there are as many accepted baseline
\* entries as confirmed calls, and as many equal entries as confirmed calls
\* with the same arguments.
C17_BaselineAddsEveryTime ==
    /\ baseline.stored = baseline.calls
    /\ baseline.copies = baseline.repeats
    /\ last.tool = "initialize_system_baseline" =>
          \A k \in 1..Len(last.mem) : \A i \in 1..Len(last.mem[k].calls) :
              last.mem[k].calls[i].op # "search"
    /\ BaselineConfirmed =>
          /\ Cardinality(StoredCalls) = 1
          /\ \A i \in StoredCalls : ClientCalls(last)[i].metadata.type = "baseline"

\* C17 witness: a second call with the arguments of the first was confirmed
\* and the store has received two equal baseline entries.
C17_Witness ==
    /\ BaselineConfirmed
    /\ baseline.calls = 2
    /\ baseline.repeats = 2
    /\ baseline.copies = 2
    /\ last.args = baseline.args

====
